---- MODULE Spec2Model ----
(***************************************************************************)
(* The ingestion pipeline of docu-query: scheduler.py (enqueue_pending and *)
(* its loop) and worker.py (process_document and its loop), over the       *)
(* tables of models.py.                                                    *)
(*                                                                         *)
(* The module-level handles (settings, the redis client r, the engine and  *)
(* the s3 client) are taken as constructed.  The function bodies are       *)
(* followed statement by statement, database commits and queue operations  *)
(* being the points where processes interleave.                            *)
(***************************************************************************)
EXTENDS Integers, Sequences, FiniteSets, TLC

(* ---- bounds of the model ---- *)
MaxQueue == 2
MaxChunks == 2
MaxTextLen == 60
MaxPending == 52
MaxJobs == 4

(* ---- program constants ---- *)
MAX_RETRIES == 3
BATCH_SIZE == 50
MIN_LEN == 50

Docs == {"d1"}
Workers == {"w1", "w2"}
Scheds == {"s1", "s2"}
NoDoc == "none"

VARIABLES
  docs,        \* raw_documents: doc_id -> row (the mutable columns)
  chunks,      \* raw_chunks: doc_id -> number of rows carrying that doc_id
  quarantine,  \* keys present in the quarantine bucket
  queue,       \* the redis list document_parse_queue, left to right
  env,         \* per document: what the object store and the backends hold for it
  wk,          \* per worker: position in process_document and its locals
  sch,         \* per scheduler: position in enqueue_pending and its locals
  dIn,         \* input of the retry decision (decision specification)
  dOut,        \* its result
  jobs         \* per document: worker jobs started for it so far (history, counted up to MaxJobs)

vars == <<docs, chunks, quarantine, queue, env, wk, sch, dIn, dOut, jobs>>

(* ---- extracted text: counts of non-whitespace and whitespace characters ---- *)
Text(n, b) == [nb |-> n, ws |-> b]
EmptyText == Text(0, 0)
BlankText == Text(0, MIN_LEN)
ShortText == Text(5, 0)
GoodText == Text(MIN_LEN, 0)
SampleTexts == {EmptyText, BlankText, ShortText, GoodText}

\* len(extracted_text)
Len_(t) == t.nb + t.ws
\* extracted_text.strip() is the empty string
StripEmpty(t) == t.nb = 0

\* mutant: the blank test dropped, only the length compared
IsDeficient_LenOnly(t) == Len_(t) < MIN_LEN

\* worker.py:176  not extracted_text.strip() or len(extracted_text) < 50
IsDeficient(t) == StripEmpty(t) \/ Len_(t) < MIN_LEN

\* mutant: the retry limit compared with retry_count instead of retry_count + 1
Decide_RetryBelowMax(t, rc, maxRetries) ==
  IF IsDeficient(t)
    THEN IF rc < maxRetries THEN "Retry" ELSE "Quarantine"
    ELSE "Accept"

\* mutant: a text of exactly the minimum length counted as deficient
Decide_LengthExclusive(t, rc, maxRetries) ==
  IF StripEmpty(t) \/ Len_(t) <= MIN_LEN
    THEN IF rc + 1 < maxRetries THEN "Retry" ELSE "Quarantine"
    ELSE "Accept"

\* worker.py:176-220: which of the three outcome branches the job takes
Decide(t, rc, maxRetries) ==
  IF IsDeficient(t)
    THEN IF rc + 1 < maxRetries THEN "Retry" ELSE "Quarantine"
    ELSE "Accept"

(* ---- extraction backends: ok = FALSE is an exception or a non-200 reply ---- *)
Result(o, t) == [ok |-> o, text |-> t]

\* worker.py:70-95
extract_text_from_pdf(p, t) ==
  IF p.ok /\ ~StripEmpty(p.text) THEN p.text
  ELSE IF t.ok /\ ~StripEmpty(t.text) THEN t.text
  ELSE EmptyText

\* worker.py:78-83: the Tika request is made unless pdfplumber's text was returned
pdf_calls_tika(p) == ~(p.ok /\ ~StripEmpty(p.text))

\* worker.py:105-110: tesseract is run unless the PaddleOCR text was returned
ocr_calls_tesseract(p) == ~(p.ok /\ Len_(p.text) > 0)

\* mutant: no fallback to tesseract
ocr_image_NoFallback(p, t) ==
  IF p.ok /\ Len_(p.text) > 0 THEN p.text
  ELSE EmptyText

\* worker.py:97-125
ocr_image(p, t) ==
  IF p.ok /\ Len_(p.text) > 0 THEN p.text
  ELSE IF t.ok THEN t.text
  ELSE EmptyText

\* what a backend can answer for the bytes of document d
BackendResults(d) ==
  CASE env[d].content = "good" -> {Result(TRUE, GoodText)}
    [] env[d].content = "empty" -> {Result(TRUE, EmptyText), Result(FALSE, EmptyText)}
    [] OTHER -> {Result(o, t) : o \in BOOLEAN, t \in SampleTexts}

\* worker.py:168-173: the texts the chain chosen by file_type can return for d
ExtractedTexts(d, file_type) ==
  {IF file_type = "pdf" THEN extract_text_from_pdf(p, t) ELSE ocr_image(p, t) :
     p \in BackendResults(d), t \in BackendResults(d)}

\* whether a call to the object store for document d can raise
StoreMayFail(d) == env[d].store = "flaky"

(* ---- rows ---- *)
\* ingest.py:138-147: the row written at intake
NewRow == [parse_status |-> "pending", retry_count |-> 0,
           file_type |-> "pdf", error_message |-> "NULL"]

IdleWorker == [pc |-> "idle", doc |-> NoDoc, retry_count |-> 0,
               file_type |-> "pdf", is_scanned |-> FALSE,
               text |-> EmptyText, err |-> "NULL"]

IdleSched == [pc |-> "idle", pending_docs |-> {}, todo |-> {}]

Envs == {e \in [intact : BOOLEAN, scanned : BOOLEAN,
                content : {"good", "empty", "varied"},
                store : {"ok", "flaky"}] :
           /\ e.content = "empty" => e.scanned
           /\ ~e.intact => (~e.scanned /\ e.content = "varied")}

Init ==
  /\ docs = [d \in Docs |-> NewRow]
  /\ chunks = [d \in Docs |-> 0]
  /\ quarantine = {}
  /\ queue = << >>
  /\ env \in [Docs -> Envs]
  /\ wk = [w \in Workers |-> IdleWorker]
  /\ sch = [s \in Scheds |-> IdleSched]
  /\ dIn = [text |-> EmptyText, rc |-> 0, max |-> MAX_RETRIES]
  /\ dOut = "none"
  /\ jobs = [d \in DOMAIN docs |-> 0]

Min(a, b) == IF a < b THEN a ELSE b

(* ---- scheduler.py: enqueue_pending ---- *)
RECURSIVE Batches(_, _)
\* scheduler.py:18-19: the row sets a SELECT ... LIMIT limit without ORDER BY can
\* return from the matching rows: all of them when they are at most limit, else
\* any limit of them
Batches(rows, limit) ==
  IF Cardinality(rows) <= limit THEN {rows}
  ELSE UNION {Batches(rows \ {x}, limit) : x \in rows}

\* scheduler.py:18-22: up to BATCH_SIZE rows with parse_status = 'pending', no ORDER BY
Select(s) ==
  /\ sch[s].pc = "idle"
  /\ LET pending == {d \in DOMAIN docs : docs[d].parse_status = "pending"} IN
       /\ pending # {}
       /\ \E batch \in Batches(pending, BATCH_SIZE) :
            /\ sch' = [sch EXCEPT ![s] = [pc |-> "publish", pending_docs |-> batch,
                                           todo |-> batch]]
  /\ UNCHANGED <<docs, chunks, quarantine, queue, env, wk, dIn, dOut, jobs>>

\* scheduler.py:24-42: one rpush of the loop.  After the last rpush line 33 binds
\* the id list to the attribute doc.ids and line 36 reads the name doc_ids, which
\* is bound nowhere: NameError, the UPDATE to 'queued' is never built, the finally
\* clause closes the session and the loop of lines 45-50 prints the error.
Publish(s) ==
  /\ sch[s].pc = "publish"
  /\ Len(queue) < MaxQueue
  /\ \E d \in sch[s].todo :
       /\ queue' = Append(queue, d)
       /\ sch' = [sch EXCEPT ![s] =
                    IF sch[s].todo = {d} THEN IdleSched
                    ELSE [@ EXCEPT !.todo = @ \ {d}]]
  /\ UNCHANGED <<docs, chunks, quarantine, env, wk, dIn, dOut, jobs>>

\* scheduler.py:31 with 41-50: rpush raises (redis unreachable); the descriptors
\* already pushed stay in the list, the finally clause closes the session and
\* the loop prints the error
PublishFails(s) ==
  /\ sch[s].pc = "publish"
  /\ sch' = [sch EXCEPT ![s] = IdleSched]
  /\ UNCHANGED <<docs, chunks, quarantine, queue, env, wk, dIn, dOut, jobs>>

(* ---- worker.py: process_document ---- *)
\* worker.py:248-252, 136-144: brpop takes the right end of the list, the row is
\* read once, the object is fetched and its hash compared
Receive(w) ==
  /\ wk[w].pc = "idle"
  /\ queue # << >>
  /\ LET d == queue[Len(queue)] IN
       /\ queue' = SubSeq(queue, 1, Len(queue) - 1)
       /\ \E fetched \in IF StoreMayFail(d) THEN BOOLEAN ELSE {TRUE} :
            wk' = [wk EXCEPT ![w] =
                     [IdleWorker EXCEPT
                        !.doc = d,
                        !.retry_count = docs[d].retry_count,
                        !.file_type = docs[d].file_type,
                        !.err = IF fetched THEN "NULL" ELSE "fetch",
                        !.pc = IF ~fetched THEN "except"
                               ELSE IF ~env[d].intact THEN "mismatch"
                               ELSE "classify"]]
       /\ jobs' = [jobs EXCEPT ![d] = Min(@ + 1, MaxJobs)]
  /\ UNCHANGED <<docs, chunks, quarantine, env, sch, dIn, dOut>>

\* mutant: the mismatch branch records 'failed' without the quarantine copy
Mismatch_NoCopy(w) ==
  /\ wk[w].pc = "mismatch"
  /\ docs' = [docs EXCEPT ![wk[w].doc].parse_status = "failed",
                          ![wk[w].doc].error_message = "Hash mismatch"]
  /\ wk' = [wk EXCEPT ![w] = IdleWorker]
  /\ UNCHANGED <<chunks, quarantine, queue, env, sch, dIn, dOut, jobs>>

\* worker.py:144-158: the quarantine copy, then 'failed' / 'Hash mismatch'
Mismatch(w) ==
  /\ wk[w].pc = "mismatch"
  /\ LET d == wk[w].doc IN
       \E copied \in IF StoreMayFail(d) THEN BOOLEAN ELSE {TRUE} :
         IF copied
           THEN /\ quarantine' = quarantine \cup {d}
                /\ docs' = [docs EXCEPT ![d].parse_status = "failed",
                                        ![d].error_message = "Hash mismatch"]
                /\ wk' = [wk EXCEPT ![w] = IdleWorker]
           ELSE /\ wk' = [wk EXCEPT ![w].pc = "except", ![w].err = "copy"]
                /\ UNCHANGED <<docs, quarantine>>
  /\ UNCHANGED <<chunks, queue, env, sch, dIn, dOut, jobs>>

\* mutant: the classification kept in the job only, the row left 'pdf'
Classify_NoCommit(w) ==
  /\ wk[w].pc = "classify"
  /\ LET d == wk[w].doc
         scanned == wk[w].file_type = "pdf" /\ env[d].scanned IN
       wk' = [wk EXCEPT ![w].pc = "extract",
                        ![w].is_scanned = scanned,
                        ![w].file_type = IF scanned THEN "scanned" ELSE @]
  /\ UNCHANGED <<docs, chunks, quarantine, queue, env, sch, dIn, dOut, jobs>>

\* worker.py:160-166: a 'pdf' row is classified; 'scanned' is committed at once
Classify(w) ==
  /\ wk[w].pc = "classify"
  /\ LET d == wk[w].doc
         scanned == wk[w].file_type = "pdf" /\ env[d].scanned IN
       /\ wk' = [wk EXCEPT ![w].pc = "extract",
                           ![w].is_scanned = scanned,
                           ![w].file_type = IF scanned THEN "scanned" ELSE @]
       /\ docs' = IF scanned THEN [docs EXCEPT ![d].file_type = "scanned"] ELSE docs
  /\ UNCHANGED <<chunks, quarantine, queue, env, sch, dIn, dOut, jobs>>

\* worker.py:168-173
Extract(w) ==
  /\ wk[w].pc = "extract"
  /\ \E text \in ExtractedTexts(wk[w].doc, wk[w].file_type) :
       wk' = [wk EXCEPT ![w].pc = "validate", ![w].text = text]
  /\ UNCHANGED <<docs, chunks, quarantine, queue, env, sch, dIn, dOut, jobs>>

\* worker.py:175-220: the outcome write
Validate(w) ==
  /\ wk[w].pc = "validate"
  /\ LET d == wk[w].doc
         decision == Decide(wk[w].text, wk[w].retry_count, MAX_RETRIES) IN
       CASE decision = "Retry" ->
              /\ docs' = [docs EXCEPT ![d].retry_count = wk[w].retry_count + 1,
                                      ![d].parse_status = "pending"]
              /\ wk' = [wk EXCEPT ![w] = IdleWorker]
              /\ UNCHANGED <<chunks, quarantine>>
         [] decision = "Quarantine" ->
              \E copied \in IF StoreMayFail(d) THEN BOOLEAN ELSE {TRUE} :
                IF copied
                  THEN /\ quarantine' = quarantine \cup {d}
                       /\ docs' = [docs EXCEPT
                                     ![d].parse_status = "failed",
                                     ![d].error_message = "Extraction failed after retries"]
                       /\ wk' = [wk EXCEPT ![w] = IdleWorker]
                       /\ UNCHANGED chunks
                  ELSE /\ wk' = [wk EXCEPT ![w].pc = "except", ![w].err = "copy"]
                       /\ UNCHANGED <<docs, chunks, quarantine>>
         [] OTHER ->
              /\ chunks[d] < MaxChunks
              /\ chunks' = [chunks EXCEPT ![d] = @ + 1]
              /\ docs' = [docs EXCEPT ![d].parse_status = "success",
                                      ![d].error_message = "NULL"]
              /\ wk' = [wk EXCEPT ![w].pc = "metrics"]
              /\ UNCHANGED quarantine
  /\ UNCHANGED <<queue, env, sch, dIn, dOut, jobs>>

\* worker.py:222-225 with 35-42: PARSE_SUCCESS is declared without label names,
\* so PARSE_SUCCESS.labels(file_type=...) raises ValueError
Metrics(w) ==
  /\ wk[w].pc = "metrics"
  /\ wk' = [wk EXCEPT ![w].pc = "except", ![w].err = "labels"]
  /\ UNCHANGED <<docs, chunks, quarantine, queue, env, sch, dIn, dOut, jobs>>

\* mutant: the handler copies the object to quarantine and counts a retry
Except_Quarantines(w) ==
  /\ wk[w].pc = "except"
  /\ quarantine' = quarantine \cup {wk[w].doc}
  /\ docs' = [docs EXCEPT ![wk[w].doc].parse_status = "failed",
                          ![wk[w].doc].retry_count = Min(@ + 1, MAX_RETRIES - 1),
                          ![wk[w].doc].error_message = wk[w].err]
  /\ wk' = [wk EXCEPT ![w] = IdleWorker]
  /\ UNCHANGED <<chunks, queue, env, sch, dIn, dOut, jobs>>

\* mutant: the handler hands the document back to the scheduler
Except_Pending(w) ==
  /\ wk[w].pc = "except"
  /\ docs' = [docs EXCEPT ![wk[w].doc].parse_status = "pending",
                          ![wk[w].doc].error_message = wk[w].err]
  /\ wk' = [wk EXCEPT ![w] = IdleWorker]
  /\ UNCHANGED <<chunks, quarantine, queue, env, sch, dIn, dOut, jobs>>

\* worker.py:227-239: the handler at the job boundary
Except(w) ==
  /\ wk[w].pc = "except"
  /\ docs' = [docs EXCEPT ![wk[w].doc].parse_status = "failed",
                          ![wk[w].doc].error_message = wk[w].err]
  /\ wk' = [wk EXCEPT ![w] = IdleWorker]
  /\ UNCHANGED <<chunks, quarantine, queue, env, sch, dIn, dOut, jobs>>

\* worker.py:152-157, 165-166, 181-186, 195-200, 212-220: a database statement
\* or commit of the job raises (after the quarantine copy, where one precedes it)
DbWriteFails(w) ==
  /\ wk[w].pc \in {"mismatch", "classify", "validate"}
  /\ LET d == wk[w].doc
         copies == \/ wk[w].pc = "mismatch"
                   \/ /\ wk[w].pc = "validate"
                      /\ Decide(wk[w].text, wk[w].retry_count, MAX_RETRIES) = "Quarantine"
         writes == wk[w].pc = "classify" => (wk[w].file_type = "pdf" /\ env[d].scanned) IN
       /\ writes
       /\ quarantine' = IF copies THEN quarantine \cup {d} ELSE quarantine
       /\ wk' = [wk EXCEPT ![w].pc = "except", ![w].err = "db"]
  /\ UNCHANGED <<docs, chunks, queue, env, sch, dIn, dOut, jobs>>

\* worker.py:232-239 with 255-256: the handler's own UPDATE raises (the session is
\* not rolled back after the failed statement, or the database is still down);
\* the exception leaves process_document and the loop's except clause swallows it
ExceptRaises(w) ==
  /\ wk[w].pc = "except"
  /\ wk' = [wk EXCEPT ![w] = IdleWorker]
  /\ UNCHANGED <<docs, chunks, quarantine, queue, env, sch, dIn, dOut, jobs>>

Next ==
  \/ \E s \in Scheds : Select(s)
  \/ \E s \in Scheds : Publish(s)
  \/ \E s \in Scheds : PublishFails(s)
  \/ \E w \in Workers : Receive(w)
  \/ \E w \in Workers : Mismatch(w)
  \/ \E w \in Workers : Classify(w)
  \/ \E w \in Workers : Extract(w)
  \/ \E w \in Workers : Validate(w)
  \/ \E w \in Workers : Metrics(w)
  \/ \E w \in Workers : Except(w)

Spec == Init /\ [][Next]_vars

\* the same with database failures
FaultNext ==
  \/ Next
  \/ \E w \in Workers : DbWriteFails(w)
  \/ \E w \in Workers : ExceptRaises(w)

SpecFault == Init /\ [][FaultNext]_vars

\* one worker loop only (worker.py:245-256 run as a single process): the jobs of
\* a document are then processed one after the other
SerialNext ==
  \/ \E s \in Scheds : Select(s)
  \/ \E s \in Scheds : Publish(s)
  \/ \E s \in Scheds : PublishFails(s)
  \/ Receive("w1")
  \/ Mismatch("w1")
  \/ Classify("w1")
  \/ Extract("w1")
  \/ Validate("w1")
  \/ Metrics("w1")
  \/ Except("w1")

SpecSerial == Init /\ [][SerialNext]_vars

(* ---- fair scheduling: the loops of scheduler.py:45-50 and worker.py:245-256 ---- *)
\* one step of scheduler s with redis reachable
SchedStep(s) == Select(s) \/ Publish(s)

\* one step of worker w
WorkerStep(w) ==
  \/ Receive(w)
  \/ Mismatch(w)
  \/ Classify(w)
  \/ Extract(w)
  \/ Validate(w)
  \/ Metrics(w)
  \/ Except(w)

\* the scheduler and worker processes, none crashing, redis and the backends
\* always answering; the schedulers and worker w1 are scheduled fairly
LiveNext ==
  \/ \E s \in Scheds : SchedStep(s)
  \/ \E w \in Workers : WorkerStep(w)

SpecLive ==
  /\ Init
  /\ [][LiveNext]_vars
  /\ \A s \in Scheds : WF_vars(SchedStep(s))
  /\ WF_vars(WorkerStep("w1"))

(* ---- the retry decision on its own, over bounded inputs ---- *)
DecideInputs ==
  {[text |-> Text(n, b), rc |-> r, max |-> m] :
     n \in 0..MaxTextLen, b \in {0, 1, MIN_LEN - 40, MIN_LEN},
     r \in 0..MAX_RETRIES, m \in 1..(MAX_RETRIES + 1)}

InitDecide ==
  /\ docs = [d \in Docs |-> NewRow]
  /\ chunks = [d \in Docs |-> 0]
  /\ quarantine = {}
  /\ queue = << >>
  /\ env = [d \in Docs |-> [intact |-> TRUE, scanned |-> FALSE,
                            content |-> "varied", store |-> "ok"]]
  /\ wk = [w \in Workers |-> IdleWorker]
  /\ sch = [s \in Scheds |-> IdleSched]
  /\ dIn \in DecideInputs
  /\ dOut = "none"
  /\ jobs = [d \in DOMAIN docs |-> 0]

DecideStep ==
  /\ dOut = "none"
  /\ dOut' = Decide(dIn.text, dIn.rc, dIn.max)
  /\ UNCHANGED <<docs, chunks, quarantine, queue, env, wk, sch, dIn, jobs>>

SpecDecide == InitDecide /\ [][DecideStep]_vars

(* ---- the extraction chains on their own, over bounded backend results ---- *)
ExtractInputs ==
  {[chain |-> c, p |-> Result(po, pt), t |-> Result(so, st)] :
     c \in {"pdf", "scanned"}, po \in BOOLEAN, pt \in SampleTexts,
     so \in BOOLEAN, st \in SampleTexts}

NotExtracted == [done |-> FALSE, text |-> EmptyText, secondary |-> FALSE]

InitExtract ==
  /\ docs = [d \in Docs |-> NewRow]
  /\ chunks = [d \in Docs |-> 0]
  /\ quarantine = {}
  /\ queue = << >>
  /\ env = [d \in Docs |-> [intact |-> TRUE, scanned |-> FALSE,
                            content |-> "varied", store |-> "ok"]]
  /\ wk = [w \in Workers |-> IdleWorker]
  /\ sch = [s \in Scheds |-> IdleSched]
  /\ dIn \in ExtractInputs
  /\ dOut = NotExtracted
  /\ jobs = [d \in DOMAIN docs |-> 0]

\* worker.py:170-173: one call of the chain chosen by the file type
ExtractStep ==
  /\ ~dOut.done
  /\ dOut' = IF dIn.chain = "pdf"
               THEN [done |-> TRUE, text |-> extract_text_from_pdf(dIn.p, dIn.t),
                     secondary |-> pdf_calls_tika(dIn.p)]
               ELSE [done |-> TRUE, text |-> ocr_image(dIn.p, dIn.t),
                     secondary |-> ocr_calls_tesseract(dIn.p)]
  /\ UNCHANGED <<docs, chunks, quarantine, queue, env, wk, sch, dIn, jobs>>

SpecExtract == InitExtract /\ [][ExtractStep]_vars

(* ---- one enqueue_pending run over a table of many documents ---- *)
\* documents numbered in the order of their ingest_ts; all 'pending' except
\* possibly one already processed
InitSelect ==
  /\ \E n \in 1..MaxPending : \E k \in 0..n :
       /\ docs = [d \in 1..n |-> IF d = k THEN [NewRow EXCEPT !.parse_status = "success"]
                                  ELSE NewRow]
       /\ chunks = [d \in 1..n |-> IF d = k THEN 1 ELSE 0]
       /\ env = [d \in 1..n |-> [intact |-> TRUE, scanned |-> FALSE,
                                  content |-> "good", store |-> "ok"]]
  /\ quarantine = {}
  /\ queue = << >>
  /\ wk = [w \in Workers |-> IdleWorker]
  /\ sch = [s \in Scheds |-> IdleSched]
  /\ dIn = [text |-> EmptyText, rc |-> 0, max |-> MAX_RETRIES]
  /\ dOut = "none"
  /\ jobs = [d \in DOMAIN docs |-> 0]

SelectNext == Select("s1")

SpecSelect == InitSelect /\ [][SelectNext]_vars

(***************************************************************************)
(* Properties                                                              *)
(***************************************************************************)
Terminal == {"success", "failed"}

\* C1: once parse_status is 'success' or 'failed', no step of any Scheduler or
\* Worker changes it.
C1_TerminalStable ==
  [][\A d \in DOMAIN docs :
       docs[d].parse_status \in Terminal =>
         docs'[d].parse_status = docs[d].parse_status]_vars

\* C2: a document whose parse_status is 'success' has exactly one chunk row,
\* also when its job descriptor is delivered more than once.
C2_OneChunkOnSuccess ==
  \A d \in DOMAIN docs : docs[d].parse_status = "success" => chunks[d] = 1

\* C3: a document whose parse_status is not 'success' has no chunk row.
C3_NoChunkUnlessSuccess ==
  \A d \in DOMAIN docs : docs[d].parse_status # "success" => chunks[d] = 0

\* C4: retry_count never decreases, a step changes it by at most +1, and it
\* changes only in the outcome write of a job whose extracted text was deficient.
C4_RetryCountMonotone ==
  [][\A d \in DOMAIN docs :
       /\ docs'[d].retry_count >= docs[d].retry_count
       /\ docs'[d].retry_count <= docs[d].retry_count + 1
       /\ docs'[d].retry_count # docs[d].retry_count =>
            \E w \in Workers : /\ wk[w].pc = "validate"
                               /\ wk[w].doc = d
                               /\ IsDeficient(wk[w].text)
                               /\ wk'[w].pc = "idle"]_vars

\* a job whose recomputed hash differed from file_hash
MismatchJob(w) ==
  \/ wk[w].pc = "mismatch"
  \/ wk[w].pc = "except" /\ wk[w].err = "copy" /\ ~env[wk[w].doc].intact

JobEnds(w) == wk[w].pc # "idle" /\ wk'[w].pc = "idle"

\* a job on bytes whose hash differs is never at classification or extraction
NoExtractionOnMismatch ==
  \A w \in Workers :
    (wk[w].doc # NoDoc /\ ~env[wk[w].doc].intact) =>
      wk[w].pc \in {"mismatch", "except"}

\* C5 as stated: a job whose recomputed hash differs ends with 'failed',
\* retry_count unchanged, a quarantine copy present, and neither classification
\* nor extraction invoked.
C5_HashMismatchQuarantined ==
  [][/\ NoExtractionOnMismatch'
     /\ \A w \in Workers :
          (MismatchJob(w) /\ JobEnds(w)) =>
            /\ docs'[wk[w].doc].parse_status = "failed"
            /\ docs'[wk[w].doc].retry_count = docs[wk[w].doc].retry_count
            /\ wk[w].doc \in quarantine']_vars

\* C5 amended: the same, the quarantine copy being present when copy_object
\* returned; when copy_object raises the handler still records 'failed'.
C5_HashMismatchFails ==
  [][/\ NoExtractionOnMismatch'
     /\ \A w \in Workers :
          (MismatchJob(w) /\ JobEnds(w)) =>
            /\ docs'[wk[w].doc].parse_status = "failed"
            /\ docs'[wk[w].doc].retry_count = docs[wk[w].doc].retry_count
            /\ wk[w].pc = "mismatch" => wk[w].doc \in quarantine']_vars

C5_Witness ==
  \E d \in DOMAIN docs :
    /\ ~env[d].intact
    /\ docs[d].parse_status = "failed"
    /\ docs[d].error_message = "Hash mismatch"
    /\ d \in quarantine

\* the Retry Policy as C6 words it: Accept when the text is non-empty and its
\* length is at or above the threshold
PolicyAsStated(t, rc, maxRetries) ==
  IF Len_(t) > 0 /\ Len_(t) >= MIN_LEN THEN "Accept"
  ELSE IF rc + 1 < maxRetries THEN "Retry"
  ELSE "Quarantine"

\* the same with "non-empty" read as "holds a non-whitespace character"
PolicyNonBlank(t, rc, maxRetries) ==
  IF t.nb > 0 /\ Len_(t) >= MIN_LEN THEN "Accept"
  ELSE IF rc + 1 < maxRetries THEN "Retry"
  ELSE "Quarantine"

\* C6 as stated: the decision equals the Retry Policy for every text,
\* retry_count and maxRetries.
C6_DecisionIsPolicy ==
  dOut # "none" => dOut = PolicyAsStated(dIn.text, dIn.rc, dIn.max)

\* C6 amended: Accept needs a text that is not blank (non-empty after strip)
\* and of length >= 50; below that Retry while retry_count + 1 < maxRetries,
\* else Quarantine.
C6_DecisionIsNonBlankPolicy ==
  dOut # "none" => dOut = PolicyNonBlank(dIn.text, dIn.rc, dIn.max)

C6_Witness ==
  /\ dOut = "Retry"
  /\ dIn.text = BlankText

\* the three fixed vectors of C7, maxRetries = 3
FixedVectors ==
  /\ (dIn.text = EmptyText /\ dIn.rc = 0) => dOut = "Retry"
  /\ (dIn.text = EmptyText /\ dIn.rc = 2) => dOut = "Quarantine"
  /\ (dIn.text = ShortText /\ dIn.rc = 1) => dOut = "Retry"

\* C7 as stated: with maxRetries = 3, ("", 0) Retry, ("", 2) Quarantine,
\* ("short", 1) Retry, and every text of 40 or more real characters at
\* retry_count 0 is Accept.
C7_VectorsForty ==
  (dOut # "none" /\ dIn.max = MAX_RETRIES) =>
    /\ FixedVectors
    /\ (dIn.text.nb >= 40 /\ dIn.rc = 0) => dOut = "Accept"

\* C7 amended: the last vector holds from 50 real characters on.
C7_VectorsFifty ==
  (dOut # "none" /\ dIn.max = MAX_RETRIES) =>
    /\ FixedVectors
    /\ (dIn.text.nb >= MIN_LEN /\ dIn.rc = 0) => dOut = "Accept"

C7_Witness ==
  /\ dIn.max = MAX_RETRIES
  /\ dIn.rc = 0
  /\ dIn.text.nb >= MIN_LEN
  /\ dOut = "Accept"

\* a scanned document, bytes intact, every backend empty on every attempt, the
\* object store answering every call
EmptyScan(d) ==
  /\ env[d].intact
  /\ env[d].scanned
  /\ env[d].content = "empty"
  /\ env[d].store = "ok"

GoodPdf(d) ==
  /\ env[d].intact
  /\ ~env[d].scanned
  /\ env[d].content = "good"
  /\ env[d].store = "ok"

\* C9: such a document is processed by one job, gets one chunk and ends, and
\* stays, at 'success' with retry_count = 0.
C9_GoodPdfSucceeds ==
  \A d \in DOMAIN docs :
    GoodPdf(d) =>
      /\ docs[d].parse_status \in {"pending", "success"}
      /\ docs[d].retry_count = 0
      /\ chunks[d] = (IF docs[d].parse_status = "success" THEN 1 ELSE 0)

\* C10: two Scheduler instances inside enqueue_pending never hold the same
\* document in their selections.
C10_DisjointSelections ==
  \A s \in Scheds : \A t \in Scheds \ {s} :
    (sch[s].pc = "publish" /\ sch[t].pc = "publish") =>
      sch[s].pending_docs \cap sch[t].pending_docs = {}

\* the documents of s's batch whose descriptor is in the list once this step is taken
PublishedAfter(s) ==
  (sch[s].pending_docs \ sch[s].todo)
    \cup {d \in sch[s].todo : queue' = Append(queue, d)}

\* C11: when an enqueue_pending run ends, also on a failed rpush, every
\* document of its batch is either published and 'queued' or not published and
\* 'pending'.
C11_PublishedIffQueued ==
  [][\A s \in Scheds :
       (sch[s].pc = "publish" /\ sch'[s].pc = "idle") =>
         \A d \in sch[s].pending_docs :
           IF d \in PublishedAfter(s)
             THEN docs'[d].parse_status = "queued"
             ELSE docs'[d].parse_status = "pending"]_vars

\* C12: an exception raised in a job is caught at the job boundary: the step
\* that leaves the handler records 'failed' with the error text and returns the
\* worker to its loop.
C12_HandlerRecordsFailed ==
  [][\A w \in Workers :
       (wk[w].pc = "except" /\ wk'[w] # wk[w]) =>
         /\ wk'[w].pc = "idle"
         /\ docs'[wk[w].doc].parse_status = "failed"
         /\ docs'[wk[w].doc].error_message = wk[w].err]_vars

\* the step pushes a descriptor of d onto the list
Enqueued(d) == Len(queue') > Len(queue) /\ queue'[Len(queue')] = d

\* the row of d as the job that found its text deficient at the retry limit leaves it
RetriesExhausted(d) ==
  /\ docs[d].parse_status = "failed"
  /\ docs[d].error_message = "Extraction failed after retries"

\* C13: every step that leaves a document 'pending' leaves retry_count below
\* maxRetries, retry_count < maxRetries in every state, and a document failed
\* at the retry limit stays 'failed' and is not enqueued again.
C13_RetryLimitFinal ==
  [][\A d \in DOMAIN docs :
       /\ docs[d].retry_count < MAX_RETRIES
       /\ (docs'[d] # docs[d] /\ docs'[d].parse_status = "pending") =>
            docs'[d].retry_count < MAX_RETRIES
       /\ RetriesExhausted(d) =>
            (docs'[d].parse_status = "failed" /\ ~Enqueued(d))]_vars

\* the parts of C13 that bound the counter
C13_CounterBelowLimit ==
  \A d \in DOMAIN docs : docs[d].retry_count < MAX_RETRIES

\* the step is an outcome write of worker w on its document
OutcomeWrite(w) ==
  /\ wk[w].pc \in {"mismatch", "validate", "except"}
  /\ docs'[wk[w].doc].parse_status # docs[wk[w].doc].parse_status
       \/ wk'[w].pc \in {"idle", "metrics"}
  /\ wk'[w].pc # "except"

\* C14: the Scheduler's write of 'queued' precedes the Worker's outcome write of
\* the job: an outcome write finds the document 'queued', and no step sets
\* 'queued' on a document a Worker has moved to 'success' or 'failed'.
C14_QueuedBeforeOutcome ==
  [][/\ \A w \in Workers :
          OutcomeWrite(w) => docs[wk[w].doc].parse_status = "queued"
     /\ \A d \in DOMAIN docs :
          docs[d].parse_status \in Terminal => docs'[d].parse_status # "queued"]_vars

\* a backend result that is no error and holds at least one character
YieldsNonEmpty(r) == r.ok /\ Len_(r.text) > 0

\* a backend result the chain takes: for the pdf chain a text with a
\* non-whitespace character, for the OCR chain a text of at least one character
YieldsUsable(chain, r) ==
  r.ok /\ (IF chain = "pdf" THEN ~StripEmpty(r.text) ELSE Len_(r.text) > 0)

\* C15 as stated: the chain returns the text of the first backend, in chain
\* order, that yields non-empty text, calls the secondary only when the primary
\* yields none, counts a backend error as empty, and returns empty text when
\* neither yields any.
C15_FirstNonEmpty ==
  dOut.done =>
    /\ dOut.secondary = ~YieldsNonEmpty(dIn.p)
    /\ dOut.text = IF YieldsNonEmpty(dIn.p) THEN dIn.p.text
                   ELSE IF YieldsNonEmpty(dIn.t) THEN dIn.t.text
                   ELSE EmptyText

\* C15 amended: the same for the OCR chain; the pdf chain takes a backend's
\* text only when it holds a non-whitespace character, so a whitespace-only
\* primary text calls the secondary and two whitespace-only texts give "".
C15_FirstUsable ==
  dOut.done =>
    /\ dOut.secondary = ~YieldsUsable(dIn.chain, dIn.p)
    /\ dOut.text = IF YieldsUsable(dIn.chain, dIn.p) THEN dIn.p.text
                   ELSE IF YieldsUsable(dIn.chain, dIn.t) THEN dIn.t.text
                   ELSE EmptyText

C15_Witness ==
  /\ dOut.done
  /\ dIn.chain = "pdf"
  /\ dIn.p = Result(TRUE, BlankText)
  /\ dIn.t = Result(TRUE, GoodText)
  /\ dOut.secondary
  /\ dOut.text = GoodText

\* a job whose get_object raised
FetchFailedJob(w) == wk[w].pc = "except" /\ wk[w].err = "fetch"

\* C16: a job whose fetch from the Object Store fails goes straight to the
\* handler and ends with 'failed' and the error text, retry_count unchanged,
\* no classification or extraction and no quarantine copy.
C16_FetchFailureFails ==
  [][\A w \in Workers :
       /\ wk'[w].err = "fetch" => wk'[w].pc = "except"
       /\ (FetchFailedJob(w) /\ wk'[w] # wk[w]) =>
            /\ wk'[w].pc = "idle"
            /\ docs'[wk[w].doc].parse_status = "failed"
            /\ docs'[wk[w].doc].error_message = "fetch"
            /\ docs'[wk[w].doc].retry_count = docs[wk[w].doc].retry_count
            /\ docs'[wk[w].doc].file_type = docs[wk[w].doc].file_type
            /\ quarantine' = quarantine
            /\ chunks' = chunks]_vars

C16_Witness ==
  \E d \in DOMAIN docs :
    /\ docs[d].parse_status = "failed"
    /\ docs[d].error_message = "fetch"
    /\ d \notin quarantine
    /\ \A w \in Workers : wk[w].pc = "idle"

\* a job whose quarantine copy raised, on either quarantine path
CopyFailedJob(w) == wk[w].pc = "except" /\ wk[w].err = "copy"

\* C17: on both quarantine paths a failed copy_object leads to the handler and
\* the job ends with the document 'failed', not 'queued' and not 'pending'.
C17_CopyFailureStillFails ==
  [][\A w \in Workers :
       /\ wk'[w].err = "copy" =>
            /\ wk'[w].pc = "except"
            /\ wk[w].pc \in {"mismatch", "validate", "except"}
       /\ (CopyFailedJob(w) /\ wk'[w] # wk[w]) =>
            /\ wk'[w].pc = "idle"
            /\ docs'[wk[w].doc].parse_status = "failed"]_vars

C17_Witness ==
  \E d \in DOMAIN docs :
    /\ env[d].intact
    /\ docs[d].parse_status = "failed"
    /\ docs[d].error_message = "copy"
    /\ docs[d].retry_count = MAX_RETRIES - 1
    /\ d \notin quarantine

\* models.py:26: document a was ingested before document b (ingest_ts)
IngestedBefore(a, b) == a < b

\* C18: a selection holds at most batchSize documents, all 'pending', and no
\* selected document is newer than a pending document left unselected.
C18_OldestFirstBatch ==
  \A s \in Scheds :
    sch[s].pc = "publish" =>
      LET selected == sch[s].pending_docs
          pending == {d \in DOMAIN docs : docs[d].parse_status = "pending"} IN
        /\ Cardinality(selected) <= BATCH_SIZE
        /\ selected \subseteq pending
        /\ \A a \in selected : \A b \in pending \ selected : IngestedBefore(a, b)

\* the parts of C18 on the size and the status of the selection
C18_BatchOfPending ==
  \A s \in Scheds :
    sch[s].pc = "publish" =>
      /\ Cardinality(sch[s].pending_docs) <= BATCH_SIZE
      /\ \A d \in sch[s].pending_docs : docs[d].parse_status = "pending"

\* the step is worker w classifying its 'pdf' document as scanned
ClassifiesScanned(w) ==
  /\ wk[w].pc = "classify"
  /\ wk[w].file_type = "pdf"
  /\ env[wk[w].doc].scanned
  /\ wk'[w].pc = "extract"

\* C19: a job that classifies its 'pdf' document as scanned has 'scanned'
\* committed before extraction and extracts with the OCR chain; a job that
\* reads the row afterwards skips the classification and extracts with the OCR
\* chain; file_type changes in no other step.
C19_ScannedCommittedOnce ==
  [][/\ \A w \in Workers :
          /\ ClassifiesScanned(w) =>
               /\ docs'[wk[w].doc].file_type = "scanned"
               /\ wk'[w].is_scanned
          /\ (wk'[w].pc \in {"extract", "validate"} /\ wk'[w].is_scanned) =>
               docs'[wk'[w].doc].file_type = "scanned"
          /\ (wk'[w].pc = "extract" /\ docs'[wk'[w].doc].file_type = "scanned") =>
               wk'[w].file_type = "scanned"
          /\ (wk[w].pc = "extract" /\ wk[w].file_type = "scanned" /\ wk'[w].pc = "validate") =>
               wk'[w].text \in ExtractedTexts(wk[w].doc, "scanned")
          /\ (wk[w].pc = "idle" /\ wk'[w].pc # "idle") =>
               wk'[w].file_type = docs[wk'[w].doc].file_type
          /\ (wk[w].pc = "classify" /\ wk[w].file_type = "scanned" /\ wk'[w] # wk[w]) =>
               /\ wk'[w].pc = "extract"
               /\ ~wk'[w].is_scanned
               /\ wk'[w].file_type = "scanned"
               /\ docs' = docs
     /\ \A d \in DOMAIN docs :
          docs'[d].file_type # docs[d].file_type =>
            /\ docs[d].file_type = "pdf"
            /\ docs'[d].file_type = "scanned"
            /\ \E w \in Workers : wk[w].doc = d /\ ClassifiesScanned(w)]_vars

C19_Witness ==
  \E w \in Workers :
    /\ wk[w].pc = "validate"
    /\ wk[w].retry_count >= 1
    /\ wk[w].file_type = "scanned"
    /\ ~wk[w].is_scanned
    /\ docs[wk[w].doc].file_type = "scanned"

\* worker w has committed the chunk and 'success' and is still inside process_document
AfterSuccessCommit(w) ==
  \/ wk[w].pc = "metrics"
  \/ wk[w].pc = "except" /\ wk[w].err = "labels"

\* C20: after the commit of the chunk and 'success', no later step of the same
\* invocation, the metrics recording or the handler run for a failure in it,
\* changes parse_status or error_message.
C20_SuccessSurvivesMetrics ==
  [][\A w \in Workers :
       (AfterSuccessCommit(w) /\ wk'[w] # wk[w]) =>
         /\ docs'[wk[w].doc].parse_status = docs[wk[w].doc].parse_status
         /\ docs'[wk[w].doc].error_message = docs[wk[w].doc].error_message]_vars

\* document d has been neither 'success' nor 'failed' so far: every write of
\* 'failed' sets error_message, and only the write of 'success', which adds a
\* chunk row, clears it
NeverTerminal(d) ==
  /\ docs[d].parse_status \notin Terminal
  /\ docs[d].error_message = "NULL"
  /\ chunks[d] = 0

\* C21: every document created 'pending' reaches 'success' or 'failed' after at
\* most maxRetries Worker jobs: no job beyond the maxRetries-th is started for a
\* document that has not been 'success' or 'failed' yet.
C21_TerminalWithinMaxRetries ==
  \A d \in DOMAIN docs : NeverTerminal(d) => jobs[d] <= MAX_RETRIES

\* the liveness part of C21: under fair scheduling every document is
\* eventually 'success' or 'failed'
C21_EventuallyTerminal ==
  \A d \in Docs : <>(docs[d].parse_status \in Terminal)

====
